---- MODULE Spec2Model ----
(***************************************************************************)
(* Model of the scoped configuration resolver of the spell-checker client  *)
(* (client/src/settings/settings.ts): locale enable/disable/override,      *)
(* language-id enable/disable with the companion settings-file write and   *)
(* the promise returned, dictionary word addition, settings-file           *)
(* discovery, overlapping store writes, the settings-file watch loop, and  *)
(* the workspace enable/disable commands of extension.ts.                  *)
(*                                                                         *)
(* Strings are sequences of one-character strings, so that split, trim,    *)
(* toLowerCase, join and the default (code unit) sort order are computed   *)
(* as JavaScript computes them.  An optional value is a record             *)
(* [def, val]; Undef stands for JavaScript's undefined.                    *)
(***************************************************************************)
EXTENDS Naturals, Sequences, FiniteSets, TLC

VARIABLES
    vsConfig,           \* the host configuration store: key -> scope -> value
    workspaceFolders,   \* workspace.workspaceFolders: undefined or a list of roots
    fsFiles,            \* existing settings files: path -> enabledLanguageIds in the file
    fileTasks,          \* the companion settings-file tasks started by the calls
    fileLog,            \* settings-file writes performed so far
    calls,              \* the calls made so far, with what each read and wrote
    promises,           \* call index -> state of the promise the call returned
    inflight,           \* configuration writes issued and not yet landed
    watching,           \* util/watcher: the files being watched
    watchAdds,          \* the watcher.add calls made so far
    probes,             \* discovery ticks whose findSettingsFiles has not completed
    disposed            \* the handle of watchSettingsFiles has been disposed

vars == <<vsConfig, workspaceFolders, fsFiles, fileTasks, fileLog, calls,
          promises, inflight, watching, watchAdds, probes, disposed>>

\* The state of the file watcher.
watchVars == <<watching, watchAdds, probes, disposed>>

\* Number of resolver calls explored in one behaviour.
MaxCalls == 2

\* Number of discovery ticks of the watch loop explored in one behaviour.
MaxTicks == 2

(***************************************************************************)
(* JavaScript values and string primitives                                 *)
(***************************************************************************)
Undef == [def |-> FALSE, val |-> <<>>]

\* undefined where a boolean is expected.
UndefBool == [def |-> FALSE, val |-> FALSE]

Def(v) == [def |-> TRUE, val |-> v]

\* `x || dflt` on a string or undefined (the empty string is falsy).
OrElseStr(x, dflt) == IF x.def /\ x.val # <<>> THEN x.val ELSE dflt

\* `x || dflt` on an array or undefined (an empty array is truthy).
OrElseList(x, dflt) == IF x.def THEN x.val ELSE dflt

\* UTF-16 code units of the characters the model uses.
CharCode ==
    [c \in {" ", ",", ".", "/", "E", "N", "a", "b", "c", "d", "e", "f", "g",
            "j", "l", "n", "o", "p", "r", "s", "v", "y"} |->
        CASE c = " " -> 32  [] c = "," -> 44  [] c = "." -> 46  [] c = "/" -> 47
          [] c = "E" -> 69  [] c = "N" -> 78  [] c = "a" -> 97  [] c = "b" -> 98
          [] c = "c" -> 99  [] c = "d" -> 100 [] c = "e" -> 101 [] c = "f" -> 102
          [] c = "g" -> 103 [] c = "j" -> 106 [] c = "l" -> 108 [] c = "n" -> 110
          [] c = "o" -> 111 [] c = "p" -> 112 [] c = "r" -> 114 [] c = "s" -> 115
          [] c = "v" -> 118 [] c = "y" -> 121]

\* String.prototype.toLowerCase, per character.
LowerChar(c) == CASE c = "E" -> "e" [] c = "N" -> "n" [] OTHER -> c

toLowerCase(s) == [i \in 1..Len(s) |-> LowerChar(s[i])]

RECURSIVE TrimLeft(_)
TrimLeft(s) == IF s # <<>> /\ Head(s) = " " THEN TrimLeft(Tail(s)) ELSE s

RECURSIVE TrimRight(_)
TrimRight(s) ==
    IF s # <<>> /\ s[Len(s)] = " " THEN TrimRight(SubSeq(s, 1, Len(s) - 1)) ELSE s

\* String.prototype.trim
trim(s) == TrimRight(TrimLeft(s))

RECURSIVE SplitFrom(_, _, _, _, _)
SplitFrom(s, sep, i, cur, acc) ==
    IF i > Len(s) THEN Append(acc, cur)
    ELSE IF s[i] = sep THEN SplitFrom(s, sep, i + 1, <<>>, Append(acc, cur))
    ELSE SplitFrom(s, sep, i + 1, Append(cur, s[i]), acc)

\* String.prototype.split(sep): ''.split(',') is [''].
split(s, sep) == SplitFrom(s, sep, 1, <<>>, <<>>)

RECURSIVE join(_, _)
\* Array.prototype.join(sep): [].join(',') is ''.
join(list, sep) ==
    IF list = <<>> THEN <<>>
    ELSE IF Len(list) = 1 THEN list[1]
    ELSE list[1] \o <<sep>> \o join(Tail(list), sep)

\* list.map(a => a.trim())
TrimAll(list) == [i \in 1..Len(list) |-> trim(list[i])]

LowerAll(list) == [i \in 1..Len(list) |-> toLowerCase(list[i])]

Range(list) == {list[i] : i \in 1..Len(list)}

RECURSIVE UniqueFrom(_, _)
UniqueFrom(list, seen) ==
    IF list = <<>> THEN <<>>
    ELSE IF Head(list) \in seen THEN UniqueFrom(Tail(list), seen)
    ELSE <<Head(list)>> \o UniqueFrom(Tail(list), seen \cup {Head(list)})

\* util.uniqueFilter(): keeps the first occurrence of each value.
uniqueFilter(list) == UniqueFrom(list, {})

\* util.unique(list)
unique(list) == UniqueFrom(list, {})

RECURSIVE StrLess(_, _)
\* The default comparison of Array.prototype.sort: by UTF-16 code units.
StrLess(a, b) ==
    IF b = <<>> THEN FALSE
    ELSE IF a = <<>> THEN TRUE
    ELSE IF CharCode[Head(a)] # CharCode[Head(b)] THEN CharCode[Head(a)] < CharCode[Head(b)]
    ELSE StrLess(Tail(a), Tail(b))

RECURSIVE InsertSorted(_, _)
InsertSorted(x, list) ==
    IF list = <<>> THEN <<x>>
    ELSE IF StrLess(x, Head(list)) THEN <<x>> \o list
    ELSE <<Head(list)>> \o InsertSorted(x, Tail(list))

RECURSIVE sort(_)
\* Array.prototype.sort() without a comparator (a stable insertion sort).
sort(list) ==
    IF list = <<>> THEN <<>>
    ELSE InsertSorted(list[Len(list)], sort(SubSeq(list, 1, Len(list) - 1)))

(***************************************************************************)
(* Targets and the configuration store (settings/config.ts)                *)
(***************************************************************************)
NoUri == [dir |-> <<>>, name |-> "none"]

\* A ConfigTarget: a ConfigurationTarget tag, with or without a resource.
Target(tag, uri) == [target |-> tag, uri |-> uri]

isConfigTargetWithResource(target) == target.uri # NoUri

isFolderLevelTarget(target) == target.target = "WorkspaceFolder"

isGlobalTarget(target) == target.target = "Global"

configTargetToScope(target) ==
    CASE target.target = "Global" -> "User"
      [] target.target = "Workspace" -> "Workspace"
      [] target.target = "WorkspaceFolder" ->
            IF isConfigTargetWithResource(target) THEN "Folder" ELSE "Workspace"

Scopes == <<"Default", "User", "Workspace", "Folder">>

ScopeIndex(scope) == CHOOSE i \in 1..Len(Scopes) : Scopes[i] = scope

Keys == {"language", "enabledLanguageIds", "words", "userWords", "enabled"}

\* The value stored exactly at `scope`, no inheritance.
inspectScopedSettingFromVSConfig(key, scope) == vsConfig[key][scope]

RECURSIVE EffectiveFrom(_, _, _)
EffectiveFrom(cfg, key, i) ==
    IF i = 0 THEN Undef
    ELSE IF cfg[key][Scopes[i]].def THEN cfg[key][Scopes[i]]
    ELSE EffectiveFrom(cfg, key, i - 1)

\* The effective value visible at `scope`: the narrowest defined value among
\* `scope` and the broader scopes.
Effective(cfg, key, scope) == EffectiveFrom(cfg, key, ScopeIndex(scope))

getScopedSettingFromVSConfig(key, scope) == Effective(vsConfig, key, scope)

\* The store after config.setSettingInVSConfig(key, value, target).
setSettingInVSConfig(key, value, target) ==
    [vsConfig EXCEPT ![key][configTargetToScope(target)] = value]

\* server.normalizeLocal: trims and lower-cases the entries of a locale list.
normalizeLocal(local) ==
    join(LowerAll(TrimAll(split(local, ","))), ",")

(***************************************************************************)
(* The record of one call                                                  *)
(***************************************************************************)
CallRecord(op, requested, target, arg, enable, key, written, cfgAfter) ==
    [op |-> op, requested |-> requested, target |-> target, arg |-> arg, enable |-> enable,
     key |-> key, scope |-> configTargetToScope(target),
     effectiveBefore |-> Effective(vsConfig, key, configTargetToScope(target)),
     storedBefore |-> vsConfig[key][configTargetToScope(target)],
     inheritedBefore |-> EffectiveFrom(vsConfig, key,
                                       ScopeIndex(configTargetToScope(target)) - 1),
     anyStoredBefore |-> \E s \in Range(Scopes) : vsConfig[key][s].def,
     written |-> written,
     storedAfter |-> cfgAfter[key][configTargetToScope(target)],
     effectiveAfter |-> Effective(cfgAfter, key, configTargetToScope(target)),
     inheritedAfter |-> EffectiveFrom(cfgAfter, key,
                                      ScopeIndex(configTargetToScope(target)) - 1),
     changed |-> {ks \in Keys \X Range(Scopes) :
                    cfgAfter[ks[1]][ks[2]] # vsConfig[ks[1]][ks[2]]}]

(***************************************************************************)
(* Locale mutation (settings.ts, enableLocal / disableLocal / overrideLocal)*)
(***************************************************************************)
\* The string enableLocal writes.
enableLocalValue(target, local) ==
    LET scope == configTargetToScope(target)
        currentLanguage == OrElseStr(getScopedSettingFromVSConfig("language", scope), <<>>)
    IN  Def(join(uniqueFilter(TrimAll(split(currentLanguage, ",") \o split(local, ","))),
                 ","))

\* disableLocal without the `|| undefined` fallback.
disableLocalValue_keepsEmpty(target, local0) ==
    LET scope == configTargetToScope(target)
        local == normalizeLocal(local0)
        currentLanguage == OrElseStr(inspectScopedSettingFromVSConfig("language", scope), <<>>)
        NotLocal(lang) == lang # local
    IN  Def(join(SelectSeq(split(normalizeLocal(currentLanguage), ","), NotLocal), ","))

\* disableLocal reading the inherited value instead of the stored one.
disableLocalValue_inherited(target, local0) ==
    LET scope == configTargetToScope(target)
        local == normalizeLocal(local0)
        currentLanguage == OrElseStr(getScopedSettingFromVSConfig("language", scope), <<>>)
        NotLocal(lang) == lang # local
        languages == join(SelectSeq(split(normalizeLocal(currentLanguage), ","), NotLocal), ",")
    IN  IF languages # <<>> THEN Def(languages) ELSE Undef

\* The value disableLocal writes: a string, or undefined for an empty result.
disableLocalValue(target, local0) ==
    LET scope == configTargetToScope(target)
        local == normalizeLocal(local0)
        currentLanguage == OrElseStr(inspectScopedSettingFromVSConfig("language", scope), <<>>)
        NotLocal(lang) == lang # local
        languages == join(SelectSeq(split(normalizeLocal(currentLanguage), ","), NotLocal), ",")
    IN  IF languages # <<>> THEN Def(languages) ELSE Undef

\* overrideLocal materializing the inherited value whatever `enable` is.
overrideLocalValue_ignoresEnable(enable, target) ==
    LET inspectLang == getScopedSettingFromVSConfig("language", configTargetToScope(target))
    IN  IF inspectLang.def /\ inspectLang.val # <<>> THEN inspectLang ELSE Undef

\* The value overrideLocal writes.
overrideLocalValue(enable, target) ==
    LET inspectLang == getScopedSettingFromVSConfig("language", configTargetToScope(target))
    IN  IF enable /\ inspectLang.def /\ inspectLang.val # <<>> THEN inspectLang ELSE Undef

\* A call `op(requested, arg)` that writes `value` to `key` at `target`.
UpdateConfigAs(op, requested, target, arg, enable, key, value) ==
    LET cfgAfter == setSettingInVSConfig(key, value, target)
    IN  /\ Len(calls) < MaxCalls
        /\ vsConfig' = cfgAfter
        /\ calls' = Append(calls, CallRecord(op, requested, target, arg, enable, key, value,
                                             cfgAfter))

UpdateConfig(op, target, arg, enable, key, value) ==
    UpdateConfigAs(op, target, target, arg, enable, key, value)

DocUri == [dir |-> <<"/", "a">>, name |-> "doc"]

LocalTargets ==
    {Target("Global", NoUri), Target("Workspace", NoUri), Target("WorkspaceFolder", DocUri)}

LocalArgs == {<<"e", "n">>, <<" ", "E", "N">>, <<"d", "e">>}

enableLocal ==
    \E target \in LocalTargets, local \in LocalArgs :
        /\ UpdateConfig("enableLocal", target, local, TRUE, "language",
                        enableLocalValue(target, local))
        /\ UNCHANGED <<workspaceFolders, fsFiles, fileTasks, fileLog, promises, inflight, watchVars>>

disableLocal ==
    \E target \in LocalTargets, local \in LocalArgs :
        /\ UpdateConfig("disableLocal", target, local, FALSE, "language",
                        disableLocalValue(target, local))
        /\ UNCHANGED <<workspaceFolders, fsFiles, fileTasks, fileLog, promises, inflight, watchVars>>

overrideLocal ==
    \E target \in LocalTargets, enable \in BOOLEAN :
        /\ UpdateConfig("overrideLocal", target, <<>>, enable, "language",
                        overrideLocalValue(enable, target))
        /\ UNCHANGED <<workspaceFolders, fsFiles, fileTasks, fileLog, promises, inflight, watchVars>>

(***************************************************************************)
(* Specification of the locale operations                                  *)
(***************************************************************************)
EmptyConfig ==
    [k \in Keys |-> [s \in Range(Scopes) |-> IF k = "enabled" THEN UndefBool ELSE Undef]]

\* No promise returned, no write in flight, nothing watched.
InitAsync ==
    /\ promises = <<>>
    /\ inflight = <<>>
    /\ watching = {}
    /\ watchAdds = <<>>
    /\ probes = <<>>
    /\ disposed = FALSE

OneFolder == Def(<< <<"/", "a">> >>)

InitLocal ==
    /\ \E d \in {Undef, Def(<<"e", "n">>)},
          u \in {Undef, Def(<<"e", "n", ",", "f", "r">>)},
          w \in {Undef, Def(<<>>), Def(<<"E", "N", " ">>),
                 Def(<<"E", "N", ",", " ", "f", "r">>), Def(<<"e", "n", ",", "f", "r">>)},
          f \in {Undef, Def(<<"f", "r">>), Def(<<"e", "n">>)} :
            vsConfig = [EmptyConfig EXCEPT !["language"] =
                            [Default |-> d, User |-> u, Workspace |-> w, Folder |-> f]]
    /\ workspaceFolders = OneFolder
    /\ fsFiles = <<>>
    /\ fileTasks = <<>>
    /\ fileLog = <<>>
    /\ calls = <<>>
    /\ InitAsync

NextLocal == enableLocal \/ disableLocal \/ overrideLocal

SpecLocal == InitLocal /\ [][NextLocal]_vars

(***************************************************************************)
(* Language ids in the configuration store (settings.ts, lines 115-129)    *)
(***************************************************************************)
getEnabledLanguagesFromConfig(scope) ==
    OrElseList(getScopedSettingFromVSConfig("enabledLanguageIds", scope), <<>>)

\* enableLanguageIdInConfig without the sort.
enableLanguageIdInConfigValue_unsorted(target, languageId) ==
    LET scope == configTargetToScope(target)
    IN  unique(<<languageId>> \o getEnabledLanguagesFromConfig(scope))

\* The list enableLanguageIdInConfig writes and returns.
enableLanguageIdInConfigValue(target, languageId) ==
    LET scope == configTargetToScope(target)
    IN  sort(unique(<<languageId>> \o getEnabledLanguagesFromConfig(scope)))

\* The list disableLanguageIdInConfig writes and returns.
disableLanguageIdInConfigValue(target, languageId) ==
    LET scope == configTargetToScope(target)
        NotId(a) == a # languageId
    IN  sort(SelectSeq(getEnabledLanguagesFromConfig(scope), NotId))

go == <<"g", "o">>

py == <<"p", "y">>

LanguageIds == {go, <<"c">>, <<"E">>}

enableLanguageIdInConfig ==
    \E target \in LocalTargets, languageId \in LanguageIds :
        /\ UpdateConfig("enableLanguageIdInConfig", target, languageId, TRUE,
                        "enabledLanguageIds",
                        Def(enableLanguageIdInConfigValue(target, languageId)))
        /\ UNCHANGED <<workspaceFolders, fsFiles, fileTasks, fileLog, promises, inflight, watchVars>>

disableLanguageIdInConfig ==
    \E target \in LocalTargets, languageId \in LanguageIds :
        /\ UpdateConfig("disableLanguageIdInConfig", target, languageId, FALSE,
                        "enabledLanguageIds",
                        Def(disableLanguageIdInConfigValue(target, languageId)))
        /\ UNCHANGED <<workspaceFolders, fsFiles, fileTasks, fileLog, promises, inflight, watchVars>>

InitLanguageIds ==
    /\ \E d \in {Undef, Def(<<py, go>>)},
          u \in {Undef, Def(<<go, py, go>>)},
          w \in {Undef, Def(<<>>), Def(<<py, <<"c">>, <<"E">>, go>>)},
          f \in {Undef, Def(<<go, <<"g">>, py, py>>)} :
            vsConfig = [EmptyConfig EXCEPT !["enabledLanguageIds"] =
                            [Default |-> d, User |-> u, Workspace |-> w, Folder |-> f]]
    /\ workspaceFolders = OneFolder
    /\ fsFiles = <<>>
    /\ fileTasks = <<>>
    /\ fileLog = <<>>
    /\ calls = <<>>
    /\ InitAsync

NextLanguageIds == enableLanguageIdInConfig \/ disableLanguageIdInConfig

SpecLanguageIds == InitLanguageIds /\ [][NextLanguageIds]_vars

(***************************************************************************)
(* Settings-file discovery (settings.ts, lines 17-23 and 62-93)            *)
(***************************************************************************)
\* CSpellSettings.defaultFileName
baseConfigName == <<"c", "s", "p", "e", "l", "l", ".", "j", "s", "o", "n">>

dotVscode == <<".", "v", "s", "c", "o", "d", "e">>

configFileLocations ==
    << baseConfigName,
       toLowerCase(baseConfigName),
       dotVscode \o <<"/">> \o baseConfigName,
       dotVscode \o <<"/">> \o toLowerCase(baseConfigName) >>

hasWorkspaceLocation == workspaceFolders.def /\ workspaceFolders.val # <<>>

\* path.join(root, rel)
pathJoin(root, rel) == root \o <<"/">> \o rel

\* workspace.getWorkspaceFolder(uri): the open root that owns the resource.
getWorkspaceFolder(uri) ==
    IF workspaceFolders.def /\ uri.dir \in Range(workspaceFolders.val)
    THEN Def(uri.dir) ELSE Undef

RECURSIVE Flatten(_)
Flatten(lists) == IF lists = <<>> THEN <<>> ELSE Head(lists) \o Flatten(Tail(lists))

\* fs.pathExists(filename)
pathExists(filename) == filename \in DOMAIN fsFiles

\* findSettingsFiles(uri): [ok |-> TRUE, val |-> the existing candidate files],
\* or ok = FALSE when `reduce` is applied to an empty list of folders.
findSettingsFiles(uri) ==
    IF ~workspaceFolders.def \/ ~hasWorkspaceLocation THEN [ok |-> TRUE, val |-> <<>>]
    ELSE
        LET folders == IF uri # NoUri
                       THEN (IF getWorkspaceFolder(uri).def
                             THEN <<getWorkspaceFolder(uri).val>> ELSE <<>>)
                       ELSE workspaceFolders.val
            Locations(root) == [k \in 1..Len(configFileLocations) |->
                                    pathJoin(root, configFileLocations[k])]
        IN  IF folders = <<>> THEN [ok |-> FALSE, val |-> <<>>]
            ELSE [ok |-> TRUE,
                  val |-> SelectSeq(Flatten([i \in 1..Len(folders) |-> Locations(folders[i])]), pathExists)]

RECURSIVE InsertByLength(_, _)
InsertByLength(x, list) ==
    IF list = <<>> THEN <<x>>
    ELSE IF Len(x) < Len(Head(list)) THEN <<x>> \o list
    ELSE <<Head(list)>> \o InsertByLength(x, Tail(list))

RECURSIVE sortByLength(_)
\* paths.sort((a, b) => a.length - b.length), a stable sort.
sortByLength(paths) ==
    IF paths = <<>> THEN <<>>
    ELSE InsertByLength(paths[Len(paths)], sortByLength(SubSeq(paths, 1, Len(paths) - 1)))

\* findExistingSettingsFileLocation taking the first path found, unsorted.
findExistingSettingsFileLocation_unsorted(uri) ==
    LET found == findSettingsFiles(uri)
    IN  IF ~found.ok THEN [ok |-> FALSE, val |-> Undef]
        ELSE IF found.val = <<>> THEN [ok |-> TRUE, val |-> Undef]
        ELSE [ok |-> TRUE, val |-> Def(found.val[1])]

\* findExistingSettingsFileLocation(uri): the shortest existing path, undefined
\* when there is none; ok = FALSE when findSettingsFiles raises.
findExistingSettingsFileLocation(uri) ==
    LET found == findSettingsFiles(uri)
    IN  IF ~found.ok THEN [ok |-> FALSE, val |-> Undef]
        ELSE IF found.val = <<>> THEN [ok |-> TRUE, val |-> Undef]
        ELSE [ok |-> TRUE, val |-> Def(sortByLength(found.val)[1])]

\* getDefaultWorkspaceConfigLocation(): under `.vscode` of the first root.
getDefaultWorkspaceConfigLocation ==
    IF workspaceFolders.def /\ workspaceFolders.val # <<>>
    THEN Def(pathJoin(pathJoin(workspaceFolders.val[1], dotVscode), baseConfigName))
    ELSE Undef

\* findSettingsFileLocation(): `path || getDefaultWorkspaceConfigLocation()`.
findSettingsFileLocation ==
    LET existing == findExistingSettingsFileLocation(NoUri)
    IN  IF ~existing.ok THEN [ok |-> FALSE, val |-> Undef]
        ELSE IF existing.val.def /\ existing.val.val # <<>> THEN existing
        ELSE [ok |-> TRUE, val |-> getDefaultWorkspaceConfigLocation]

(***************************************************************************)
(* enableLanguage / disableLanguage (settings.ts, lines 136-159)           *)
(***************************************************************************)
\* The condition under which the calls also update a settings file.
updatesSettingsFile_anyResource(target) == isConfigTargetWithResource(target)

updatesSettingsFile(target) ==
    LET updateFile == isFolderLevelTarget(target)
    IN  isConfigTargetWithResource(target) /\ updateFile

FileTask(kind, target, languageId) ==
    [kind |-> kind, call |-> Len(calls) + 1, target |-> target, languageId |-> languageId,
     stage |-> "lookup", filename |-> Undef]

\* The promise enableLanguage returns once the store write has succeeded: its
\* callback starts the file step without returning it, so only an exception
\* raised while the lookup is started reaches the caller.
enableLanguagePromise(target) ==
    IF updatesSettingsFile(target) /\ ~findSettingsFiles(target.uri).ok
    THEN "rejected" ELSE "resolved"

\* The promise disableLanguage returns once the store write has succeeded: its
\* callback returns the file step, so the promise follows it.
disableLanguagePromise(target) ==
    IF ~updatesSettingsFile(target) THEN "resolved"
    ELSE IF ~findSettingsFiles(target.uri).ok THEN "rejected"
    ELSE "pending"

Promise(state, storeRejected) == [state |-> state, storeRejected |-> storeRejected]

ReturnPromise(state, storeRejected) ==
    promises' = (Len(calls) + 1 :> Promise(state, storeRejected)) @@ promises

\* The file step of this task was returned to the caller's promise chain
\* (disableLanguage, line 152) and not dropped (enableLanguage, line 140).
TaskIsReturned(task) == task.kind = "remove"

\* The file step of a task ends with `outcome`.
SettlePromise(task, outcome) ==
    promises' = IF TaskIsReturned(task) /\ promises[task.call].state = "pending"
                THEN [promises EXCEPT ![task.call].state = outcome]
                ELSE promises

StartFileTask(kind, target, languageId) ==
    fileTasks' = IF updatesSettingsFile(target)
                 THEN Append(fileTasks, FileTask(kind, target, languageId))
                 ELSE fileTasks

RootA == <<"/", "a">>

RootB == <<"/", "b", "b">>

UriA == [dir |-> RootA, name |-> "doc"]

UriB == [dir |-> RootB, name |-> "doc"]

UriOutside == [dir |-> <<"/", "o">>, name |-> "doc"]

LanguageTargets ==
    {Target("Global", NoUri), Target("Workspace", UriA), Target("WorkspaceFolder", NoUri),
     Target("WorkspaceFolder", UriA), Target("WorkspaceFolder", UriB),
     Target("WorkspaceFolder", UriOutside)}

enableLanguage ==
    \E target \in LanguageTargets :
        /\ UpdateConfig("enableLanguage", target, go, TRUE, "enabledLanguageIds",
                        Def(enableLanguageIdInConfigValue(target, go)))
        /\ StartFileTask("add", target, go)
        /\ ReturnPromise(enableLanguagePromise(target), FALSE)
        /\ UNCHANGED <<workspaceFolders, fsFiles, fileLog, inflight, watchVars>>

disableLanguage ==
    \E target \in LanguageTargets :
        /\ UpdateConfig("disableLanguage", target, go, FALSE, "enabledLanguageIds",
                        Def(disableLanguageIdInConfigValue(target, go)))
        /\ StartFileTask("remove", target, go)
        /\ ReturnPromise(disableLanguagePromise(target), FALSE)
        /\ UNCHANGED <<workspaceFolders, fsFiles, fileLog, inflight, watchVars>>

\* The lookup of a started task completes: a file name, none, or a failure.
LookupSettingsFile ==
    \E t \in 1..Len(fileTasks) :
        /\ fileTasks[t].stage = "lookup"
        /\ LET found == findExistingSettingsFileLocation(fileTasks[t].target.uri)
           IN  /\ fileTasks' = [fileTasks EXCEPT
                    ![t].stage = IF ~found.ok THEN "failed"
                                 ELSE IF found.val.def THEN "write" ELSE "done",
                    ![t].filename = found.val]
               /\ IF found.ok /\ ~found.val.def
                  THEN SettlePromise(fileTasks[t], "resolved")
                  ELSE UNCHANGED promises
        /\ UNCHANGED <<vsConfig, workspaceFolders, fsFiles, fileLog, calls, inflight, watchVars>>

\* CSpellSettings.writeAddLanguageIdsToSettings and
\* CSpellSettings.removeLanguageIdsFromSettingsAndUpdate on the file's list.
SettingsFileAfter(kind, filename, languageId) ==
    LET old == IF filename \in DOMAIN fsFiles THEN fsFiles[filename] ELSE <<>>
        NotId(a) == a # languageId
        new == IF kind = "add" THEN unique(old \o <<languageId>>) ELSE SelectSeq(old, NotId)
    IN  [f \in DOMAIN fsFiles \cup {filename} |-> IF f = filename THEN new ELSE fsFiles[f]]

\* The settings-file write of a task whose lookup found a file.
WriteSettingsFile ==
    \E t \in 1..Len(fileTasks) :
        /\ fileTasks[t].stage = "write"
        /\ fsFiles' = SettingsFileAfter(fileTasks[t].kind, fileTasks[t].filename.val,
                                        fileTasks[t].languageId)
        /\ fileLog' = Append(fileLog,
                [call |-> fileTasks[t].call, path |-> fileTasks[t].filename.val,
                 existed |-> fileTasks[t].filename.val \in DOMAIN fsFiles,
                 filesBefore |-> DOMAIN fsFiles, filesAfter |-> DOMAIN fsFiles'])
        /\ fileTasks' = [fileTasks EXCEPT ![t].stage = "done"]
        /\ SettlePromise(fileTasks[t], "resolved")
        /\ UNCHANGED <<vsConfig, workspaceFolders, calls, inflight, watchVars>>

\* The settings-file write of a task fails (the file cannot be read or written).
WriteSettingsFileFails ==
    \E t \in 1..Len(fileTasks) :
        /\ fileTasks[t].stage = "write"
        /\ fileTasks' = [fileTasks EXCEPT ![t].stage = "failed"]
        /\ SettlePromise(fileTasks[t], "rejected")
        /\ UNCHANGED <<vsConfig, workspaceFolders, fsFiles, fileLog, calls, inflight, watchVars>>

\* enableLanguage / disableLanguage when the configuration store rejects the
\* update: the `then` callback never runs and the returned promise rejects.
StoreWriteRejects ==
    \E target \in LanguageTargets, op \in {"enableLanguage", "disableLanguage"} :
        /\ Len(calls) < MaxCalls
        /\ calls' = Append(calls,
                CallRecord(op, target, target, go, op = "enableLanguage",
                           "enabledLanguageIds",
                           vsConfig["enabledLanguageIds"][configTargetToScope(target)],
                           vsConfig))
        /\ ReturnPromise("rejected", TRUE)
        /\ UNCHANGED <<vsConfig, workspaceFolders, fsFiles, fileTasks, fileLog, inflight,
                       watchVars>>

FileIn(root, k) == pathJoin(root, configFileLocations[k])

InitLanguage ==
    /\ vsConfig \in {EmptyConfig,
                      [EmptyConfig EXCEPT !["enabledLanguageIds"]["User"] = Def(<<py, go>>)]}
    /\ workspaceFolders \in {Undef, Def(<<RootA>>), Def(<<RootB, RootA>>)}
    /\ \E existing \in {{}, {FileIn(RootA, 3)}, {FileIn(RootA, 3), FileIn(RootA, 1)},
                          {FileIn(RootB, 1), FileIn(RootA, 3)}} :
            fsFiles = [f \in existing |-> <<py>>]
    /\ fileTasks = <<>>
    /\ fileLog = <<>>
    /\ calls = <<>>
    /\ InitAsync

NextLanguage == enableLanguage \/ disableLanguage \/ LookupSettingsFile \/ WriteSettingsFile

SpecLanguage == InitLanguage /\ [][NextLanguage]_vars

\* The same calls, with failures of the configuration store and of the file write.
NextLanguageFaults == NextLanguage \/ WriteSettingsFileFails \/ StoreWriteRejects

SpecLanguageFaults == InitLanguage /\ [][NextLanguageFaults]_vars

(***************************************************************************)
(* Calls of the discovery functions                                        *)
(***************************************************************************)
\* A call findSettingsFiles(uri), uri optional: the list it completes with, or
\* raised = TRUE when it throws.
findSettingsFilesCall ==
    \E uri \in {NoUri, UriA, UriB, UriOutside} :
        /\ Len(calls) < MaxCalls
        /\ calls' = Append(calls,
                [op |-> "findSettingsFiles", uri |-> uri,
                 raised |-> ~findSettingsFiles(uri).ok,
                 result |-> findSettingsFiles(uri).val])
        /\ UNCHANGED <<vsConfig, workspaceFolders, fsFiles, fileTasks, fileLog, promises,
                       inflight, watchVars>>

\* A call findSettingsFileLocation().
findSettingsFileLocationCall ==
    /\ Len(calls) < MaxCalls
    /\ calls' = Append(calls,
            [op |-> "findSettingsFileLocation",
             raised |-> ~findSettingsFileLocation.ok,
             result |-> findSettingsFileLocation.val])
    /\ UNCHANGED <<vsConfig, workspaceFolders, fsFiles, fileTasks, fileLog, promises,
                   inflight, watchVars>>

InitDiscovery ==
    /\ vsConfig = EmptyConfig
    /\ workspaceFolders \in {Undef, Def(<<>>), Def(<<RootA>>), Def(<<RootB, RootA>>)}
    /\ \E existing \in {{}, {FileIn(RootA, 3)}, {FileIn(RootA, 3), FileIn(RootA, 1)},
                          {FileIn(RootB, 1), FileIn(RootA, 3)},
                          {FileIn(RootB, 3), FileIn(RootA, 3)}} :
            fsFiles = [f \in existing |-> <<py>>]
    /\ fileTasks = <<>>
    /\ fileLog = <<>>
    /\ calls = <<>>
    /\ InitAsync

NextDiscovery == findSettingsFilesCall \/ findSettingsFileLocationCall \/ NextLanguage

SpecDiscovery == InitDiscovery /\ [][NextDiscovery]_vars

(***************************************************************************)
(* Overlapping mutations: the read and the landing of the write are two    *)
(* steps (settings.ts, lines 121-122 and 202-211)                          *)
(***************************************************************************)
\* The number of issued writes that have landed.
LandedCount == Cardinality({k \in 1..Len(inflight) : inflight[k].landed > 0})

\* A mutation reads the store, computes its value and issues the update.
IssuedWrite(op, target, arg, key, value) ==
    [op |-> op, target |-> target, scope |-> configTargetToScope(target), arg |-> arg,
     key |-> key,
     readEffective |-> Effective(vsConfig, key, configTargetToScope(target)),
     readAt |-> LandedCount,
     value |-> value,
     landed |-> 0]

IssueWrite(op, target, arg, key, value) ==
    /\ Len(inflight) < MaxCalls
    /\ inflight' = Append(inflight, IssuedWrite(op, target, arg, key, value))
    /\ UNCHANGED <<vsConfig, workspaceFolders, fsFiles, fileTasks, fileLog, calls, promises,
                   watchVars>>

\* enableLanguageIdInConfig up to the call of setSettingInVSConfig.
IssueEnableLanguageId ==
    \E target \in LocalTargets, languageId \in LanguageIds :
        IssueWrite("enableLanguageIdInConfig", target, languageId, "enabledLanguageIds",
                   Def(enableLanguageIdInConfigValue(target, languageId)))

\* enableLocal up to the call of setSettingInVSConfig.
IssueEnableLocal ==
    \E target \in LocalTargets, local \in LocalArgs :
        IssueWrite("enableLocal", target, local, "language", enableLocalValue(target, local))

\* A write that merges with the store as it is when the write lands.
LandedValue_recomputed(w) ==
    IF w.key = "enabledLanguageIds"
    THEN Def(enableLanguageIdInConfigValue(w.target, w.arg))
    ELSE enableLocalValue(w.target, w.arg)

\* The value a landing write stores: the one computed when the mutation read.
LandedValue(w) == w.value

\* An issued update lands in the store.
LandWrite ==
    \E k \in 1..Len(inflight) :
        /\ inflight[k].landed = 0
        /\ vsConfig' = setSettingInVSConfig(inflight[k].key, LandedValue(inflight[k]),
                                            inflight[k].target)
        /\ inflight' = [inflight EXCEPT ![k].landed = LandedCount + 1]
        /\ UNCHANGED <<workspaceFolders, fsFiles, fileTasks, fileLog, calls, promises,
                       watchVars>>

InitRace ==
    /\ vsConfig \in {EmptyConfig,
                      [EmptyConfig EXCEPT !["enabledLanguageIds"]["User"] = Def(<<py>>),
                                          !["language"]["Default"] = Def(<<"f", "r">>)]}
    /\ workspaceFolders = OneFolder
    /\ fsFiles = <<>>
    /\ fileTasks = <<>>
    /\ fileLog = <<>>
    /\ calls = <<>>
    /\ InitAsync

NextRace == IssueEnableLanguageId \/ IssueEnableLocal \/ LandWrite

SpecRace == InitRace /\ [][NextRace]_vars

(***************************************************************************)
(* watchSettingsFiles (settings.ts, lines 32-45)                           *)
(***************************************************************************)
\* watcher.isWatching(file)
isWatching(file, watched) == file \in watched

\* The filter of the pipeline letting every file through.
ShouldWatch_always(file, watched) == TRUE

\* .filter(file => !watcher.isWatching(file))
ShouldWatch(file, watched) == ~isWatching(file, watched)

RECURSIVE WatchNewFiles(_, _, _)
\* The files of one discovery result pass the filter and reach watcher.add one
\* after the other.
WatchNewFiles(files, watched, adds) ==
    IF files = <<>> THEN [watched |-> watched, adds |-> adds]
    ELSE IF ShouldWatch(Head(files), watched)
         THEN WatchNewFiles(Tail(files), watched \cup {Head(files)},
                            Append(adds, [path |-> Head(files), afterDispose |-> disposed]))
         ELSE WatchNewFiles(Tail(files), watched, adds)

\* The interval fires and findSettingsFiles() starts probing.
Tick ==
    /\ ~disposed
    /\ Len(probes) < MaxTicks
    /\ probes' = Append(probes, "inflight")
    /\ UNCHANGED <<vsConfig, workspaceFolders, fsFiles, fileTasks, fileLog, calls, promises,
                   inflight, watching, watchAdds, disposed>>

\* The probes of one tick complete; the result is delivered to the pipeline
\* unless the subscription has been unsubscribed.
ProbeCompletes ==
    \E k \in 1..Len(probes) :
        /\ probes[k] = "inflight"
        /\ IF disposed
           THEN /\ probes' = [probes EXCEPT ![k] = "dropped"]
                /\ UNCHANGED <<watching, watchAdds>>
           ELSE LET after == WatchNewFiles(findSettingsFiles(NoUri).val, watching, watchAdds)
                IN  /\ probes' = [probes EXCEPT ![k] = "delivered"]
                    /\ watching' = after.watched
                    /\ watchAdds' = after.adds
        /\ UNCHANGED <<vsConfig, workspaceFolders, fsFiles, fileTasks, fileLog, calls,
                       promises, inflight, disposed>>

\* dispose(): watcher.dispose() releases every watch, d.unsubscribe() stops
\* the interval and the delivery of results.
Dispose ==
    /\ ~disposed
    /\ watching' = {}
    /\ disposed' = TRUE
    /\ UNCHANGED <<vsConfig, workspaceFolders, fsFiles, fileTasks, fileLog, calls, promises,
                   inflight, watchAdds, probes>>

WatchedCandidates == {FileIn(RootA, 1), FileIn(RootA, 3), FileIn(RootB, 1)}

\* A settings file is created in the workspace.
SettingsFileCreated ==
    \E f \in WatchedCandidates \ DOMAIN fsFiles :
        /\ fsFiles' = [g \in DOMAIN fsFiles \cup {f} |->
                            IF g = f THEN <<>> ELSE fsFiles[g]]
        /\ UNCHANGED <<vsConfig, workspaceFolders, fileTasks, fileLog, calls, promises,
                       inflight, watchVars>>

\* A settings file is deleted from the workspace.
SettingsFileDeleted ==
    \E f \in DOMAIN fsFiles :
        /\ fsFiles' = [g \in DOMAIN fsFiles \ {f} |-> fsFiles[g]]
        /\ UNCHANGED <<vsConfig, workspaceFolders, fileTasks, fileLog, calls, promises,
                       inflight, watchVars>>

InitWatch ==
    /\ vsConfig = EmptyConfig
    /\ workspaceFolders \in {Undef, Def(<<RootA>>), Def(<<RootB, RootA>>)}
    /\ fsFiles \in {<<>>, [f \in {FileIn(RootA, 3)} |-> <<>>]}
    /\ fileTasks = <<>>
    /\ fileLog = <<>>
    /\ calls = <<>>
    /\ InitAsync

NextWatch == Tick \/ ProbeCompletes \/ Dispose \/ SettingsFileCreated \/ SettingsFileDeleted

SpecWatch == InitWatch /\ [][NextWatch]_vars

(***************************************************************************)
(* The workspace enable / disable commands (extension.ts, lines 87-88;     *)
(* settings.ts, lines 111-113)                                             *)
(***************************************************************************)
\* setEnableSpellChecking(target, enabled), called by command `command`.
setEnableSpellChecking(command, target, enabled) ==
    /\ UpdateConfig(command, target, <<>>, enabled, "enabled", Def(enabled))
    /\ UNCHANGED <<workspaceFolders, fsFiles, fileTasks, fileLog, promises, inflight, watchVars>>

\* The handler registered for cSpell.enableForWorkspace.
enableForWorkspace ==
    setEnableSpellChecking("cSpell.enableForWorkspace", Target("Workspace", NoUri), FALSE)

\* The handler registered for cSpell.disableForWorkspace.
disableForWorkspace ==
    setEnableSpellChecking("cSpell.disableForWorkspace", Target("Workspace", NoUri), FALSE)

InitCommands ==
    /\ \E u \in {UndefBool, Def(TRUE), Def(FALSE)},
          w \in {UndefBool, Def(TRUE), Def(FALSE)},
          f \in {UndefBool, Def(TRUE), Def(FALSE)} :
            vsConfig = [EmptyConfig EXCEPT !["enabled"] =
                            [Default |-> Def(TRUE), User |-> u, Workspace |-> w, Folder |-> f]]
    /\ workspaceFolders \in {Undef, OneFolder}
    /\ fsFiles = <<>>
    /\ fileTasks = <<>>
    /\ fileLog = <<>>
    /\ calls = <<>>
    /\ InitAsync

NextCommands == enableForWorkspace \/ disableForWorkspace

SpecCommands == InitCommands /\ [][NextCommands]_vars

(***************************************************************************)
(* Dictionary word addition (settings.ts, lines 57-60 and 161-167)         *)
(***************************************************************************)
\* The global fallback without the workspace check.
addWordUseGlobal_ignoresWorkspace(target) == isGlobalTarget(target)

addWordUseGlobal(target) == isGlobalTarget(target) \/ ~hasWorkspaceLocation

\* The target addWordToSettings writes to.
addWordTarget(target) == IF addWordUseGlobal(target) THEN Target("Global", NoUri) ELSE target

\* The section addWordToSettings writes.
addWordSection(target) == IF addWordUseGlobal(target) THEN "userWords" ELSE "words"

\* addWordToSettings reading the inherited word list.
addWordValue_inherited(target, word) ==
    LET words == OrElseList(
                    getScopedSettingFromVSConfig(
                        addWordSection(target), configTargetToScope(addWordTarget(target))),
                    <<>>)
    IN  unique(sort(words \o split(word, " ")))

\* The word list addWordToSettings writes.
addWordValue(target, word) ==
    LET words == OrElseList(
                    inspectScopedSettingFromVSConfig(
                        addWordSection(target), configTargetToScope(addWordTarget(target))),
                    <<>>)
    IN  unique(sort(words \o split(word, " ")))

WordArgs == {<<"b">>, <<"d", " ", "a">>, <<"c", " ", " ", "b">>}

addWordToSettings ==
    \E target \in LocalTargets, word \in WordArgs :
        /\ UpdateConfigAs("addWordToSettings", target, addWordTarget(target), word, TRUE,
                          addWordSection(target), Def(addWordValue(target, word)))
        /\ UNCHANGED <<workspaceFolders, fsFiles, fileTasks, fileLog, promises, inflight, watchVars>>

InitWords ==
    /\ \E uw \in {Undef, Def(<< <<"e">>, <<"a">> >>)},
          u \in {Undef, Def(<< <<"g">> >>)},
          w \in {Undef, Def(<< <<"c">>, <<"a">>, <<"c">> >>)},
          f \in {Undef, Def(<< <<"f">> >>)} :
            vsConfig = [EmptyConfig EXCEPT
                            !["userWords"]["User"] = uw,
                            !["words"] = [Default |-> Undef, User |-> u,
                                          Workspace |-> w, Folder |-> f]]
    /\ workspaceFolders \in {Undef, Def(<<>>), OneFolder}
    /\ fsFiles = <<>>
    /\ fileTasks = <<>>
    /\ fileLog = <<>>
    /\ calls = <<>>
    /\ InitAsync

NextWords == addWordToSettings

SpecWords == InitWords /\ [][NextWords]_vars

(***************************************************************************)
(* Properties of the locale operations                                     *)
(***************************************************************************)
CallIndexes == 1..Len(calls)

\* Calls i and i+1 are the same operation on the same target and argument.
Repeated(i) ==
    /\ i + 1 \in CallIndexes
    /\ calls[i + 1].op = calls[i].op
    /\ calls[i + 1].target = calls[i].target
    /\ calls[i + 1].arg = calls[i].arg

\* enableLocal called twice reads back the same value after the second call
\* as after the first.
EnableLocalIdempotent ==
    \A i \in CallIndexes :
        (calls[i].op = "enableLocal" /\ Repeated(i))
            => calls[i + 1].effectiveAfter = calls[i].effectiveAfter

\* C1: enableLocal(T, l) twice reads back, after the second call, the value
\* read after the first; and with no `language` stored at any scope,
\* enableLocal(T, "en") twice reads back exactly "en".
C1_EnableLocalTwiceReadsEn ==
    /\ EnableLocalIdempotent
    /\ \A i \in CallIndexes :
          (/\ calls[i].op = "enableLocal" /\ Repeated(i)
           /\ ~calls[i].anyStoredBefore
           /\ calls[i].arg = <<"e", "n">>)
              => calls[i + 1].effectiveAfter = Def(<<"e", "n">>)

\* overrideLocal(true, T) at call i immediately followed by overrideLocal(false, T).
OverrideRoundTrip(i) ==
    /\ i + 1 \in CallIndexes
    /\ calls[i].op = "overrideLocal" /\ calls[i].enable
    /\ calls[i + 1].op = "overrideLocal" /\ ~calls[i + 1].enable
    /\ calls[i + 1].target = calls[i].target

\* C2 as stated: overrideLocal(true, T) then overrideLocal(false, T) leaves the
\* effective `language` at T's scope equal to the value effective there before
\* the two calls, also when T's scope stored a value of its own.
C2_OverrideRoundTripRestoresEffective ==
    \A i \in CallIndexes :
        OverrideRoundTrip(i) => calls[i + 1].effectiveAfter = calls[i].effectiveBefore

\* C2 amended: after overrideLocal(true, T) then overrideLocal(false, T), T's
\* scope stores no value and the effective `language` at T's scope is the value
\* inherited from the broader scopes; it equals the value effective before the
\* two calls when T's scope stored no value of its own before them.
C2_OverrideRoundTripRestoresInherited ==
    \A i \in CallIndexes :
        OverrideRoundTrip(i) =>
            /\ calls[i + 1].written = Undef
            /\ calls[i + 1].effectiveAfter = calls[i].inheritedBefore
            /\ ~calls[i].storedBefore.def
                    => calls[i + 1].effectiveAfter = calls[i].effectiveBefore

C2_Witness ==
    \E i \in CallIndexes :
        /\ OverrideRoundTrip(i)
        /\ ~calls[i].storedBefore.def
        /\ calls[i].inheritedBefore.def
        /\ calls[i].written = calls[i].inheritedBefore
        /\ calls[i + 1].effectiveAfter = calls[i].effectiveBefore

LocalOps == {"enableLocal", "disableLocal", "overrideLocal"}

\* A comma-joined list whose entries are non-empty, trimmed, lower-cased and
\* pairwise distinct.
IsNormalizedLocaleList(str) ==
    LET entries == split(str, ",")
    IN  /\ str # <<>>
        /\ \A i \in 1..Len(entries) :
              /\ entries[i] # <<>>
              /\ trim(entries[i]) = entries[i]
              /\ toLowerCase(entries[i]) = entries[i]
              /\ \A j \in 1..Len(entries) : entries[j] = entries[i] => j = i

\* C3: every value enableLocal, disableLocal or overrideLocal writes to
\* `language` is unset or a comma-joined list of non-empty, trimmed,
\* case-normalized, pairwise distinct entries; never the empty string.
C3_WrittenLocaleListNormalized ==
    \A i \in CallIndexes :
        calls[i].op \in LocalOps =>
            \/ calls[i].written = Undef
            \/ calls[i].written.def /\ IsNormalizedLocaleList(calls[i].written.val)

\* The entries of the normalized form of a stored `language` value.
StoredEntries(stored) == Range(split(normalizeLocal(OrElseStr(stored, <<>>)), ","))

\* C4: when the value stored exactly at T's scope consists only of locale l
\* (in any case or spacing), disableLocal(T, l) writes unset, not the empty
\* string, and the effective value at T is what the broader scopes provide.
C4_DisableLastLocaleUnsets ==
    \A i \in CallIndexes :
        (/\ calls[i].op = "disableLocal"
         /\ calls[i].storedBefore.def
         /\ "," \notin Range(calls[i].arg)
         /\ normalizeLocal(calls[i].storedBefore.val) = normalizeLocal(calls[i].arg))
            => /\ calls[i].written = Undef
               /\ calls[i].storedAfter = Undef
               /\ calls[i].effectiveAfter = calls[i].inheritedBefore

C4_Witness ==
    \E i \in CallIndexes :
        /\ calls[i].op = "disableLocal"
        /\ calls[i].storedBefore = Def(<<"E", "N", " ">>)
        /\ calls[i].arg = <<"e", "n">>
        /\ calls[i].inheritedBefore = Def(<<"e", "n", ",", "f", "r">>)
        /\ calls[i].written = Undef
        /\ calls[i].effectiveAfter = Def(<<"e", "n", ",", "f", "r">>)

\* disableLocal(T, l) at call i with l not an entry of the value stored at T.
DisableAbsent(i) ==
    /\ calls[i].op = "disableLocal"
    /\ normalizeLocal(calls[i].arg) \notin StoredEntries(calls[i].storedBefore)

\* C5 as stated: for any value stored at T's scope and a locale l that is not
\* one of its entries, disableLocal(T, l) leaves the value stored at T's scope
\* unchanged.
C5_DisableAbsentKeepsStored ==
    \A i \in CallIndexes :
        DisableAbsent(i) => calls[i].written = calls[i].storedBefore

\* C5 amended: for a locale l that is not an entry of the value stored at T's
\* scope, disableLocal(T, l) writes the normalized form (entries trimmed and
\* lower-cased) of the value stored exactly at T's scope, and unset when that
\* form is empty; a stored value that is unset, or non-empty and already
\* normalized, is left unchanged, whatever the broader scopes provide.
C5_DisableAbsentWritesNormalizedStored ==
    \A i \in CallIndexes :
        DisableAbsent(i) =>
            LET stored == calls[i].storedBefore
                norm == normalizeLocal(OrElseStr(stored, <<>>))
            IN  /\ calls[i].written = IF norm = <<>> THEN Undef ELSE Def(norm)
                /\ (~stored.def \/ (stored.val # <<>> /\ stored.val = norm))
                        => calls[i].written = stored

C5_Witness ==
    /\ \E i \in CallIndexes :
          /\ DisableAbsent(i)
          /\ calls[i].storedBefore = Def(<<"e", "n", ",", "f", "r">>)
          /\ calls[i].written = calls[i].storedBefore
    /\ \E i \in CallIndexes :
          /\ DisableAbsent(i)
          /\ ~calls[i].storedBefore.def
          /\ calls[i].inheritedBefore.def
          /\ calls[i].written = Undef


(***************************************************************************)
(* Properties of the language-id operations                                *)
(***************************************************************************)
IsSorted(list) ==
    \A i \in 1..Len(list) : \A j \in 1..Len(list) : i < j => ~StrLess(list[j], list[i])

IsDuplicateFree(list) ==
    \A i \in 1..Len(list) : \A j \in 1..Len(list) : list[i] = list[j] => i = j

\* `list` is the sorted, duplicate-free listing of the set `members`.
IsSortedSetOf(list, members) ==
    /\ IsSorted(list)
    /\ IsDuplicateFree(list)
    /\ Range(list) = members

\* C6: enableLanguageIdInConfig(T, id) writes to T's scope, and returns, the
\* lexically sorted, duplicate-free union of {id} with the enabledLanguageIds
\* list effective at T's scope (empty when none is defined).
C6_EnableLanguageIdSortedUnion ==
    \A i \in CallIndexes :
        calls[i].op = "enableLanguageIdInConfig" =>
            /\ calls[i].written.def
            /\ IsSortedSetOf(calls[i].written.val,
                             {calls[i].arg} \cup Range(OrElseList(calls[i].effectiveBefore, <<>>)))
            /\ calls[i].storedAfter = calls[i].written
            /\ calls[i].changed \subseteq {<<"enabledLanguageIds", calls[i].scope>>}

C6_Witness ==
    \E i \in CallIndexes :
        /\ calls[i].op = "enableLanguageIdInConfig"
        /\ calls[i].arg = go
        /\ calls[i].effectiveBefore = Def(<<py, <<"c">>, <<"E">>, go>>)
        /\ calls[i].written = Def(<< <<"E">>, <<"c">>, go, py >>)

\* C7: disableLanguageIdInConfig(T, id) writes to T's scope, and returns, the
\* sorted, duplicate-free set difference of the enabledLanguageIds list
\* effective at T's scope minus {id}, also when that list repeats entries.
C7_DisableLanguageIdSortedDifference ==
    \A i \in CallIndexes :
        calls[i].op = "disableLanguageIdInConfig" =>
            /\ calls[i].written.def
            /\ IsSortedSetOf(calls[i].written.val,
                             Range(OrElseList(calls[i].effectiveBefore, <<>>)) \ {calls[i].arg})

(***************************************************************************)
(* Properties of word addition                                             *)
(***************************************************************************)
\* C8 as stated: addWordToSettings(T, w) writes the sorted, de-duplicated union
\* of the word list visible at the resolved target's scope by an inherited
\* (effective) read with the parts of w split on spaces.
C8_AddWordUnionWithInherited ==
    \A i \in CallIndexes :
        calls[i].op = "addWordToSettings" =>
            /\ calls[i].written.def
            /\ IsSortedSetOf(calls[i].written.val,
                             Range(OrElseList(calls[i].effectiveBefore, <<>>))
                                \cup Range(split(calls[i].arg, " ")))

\* C8 amended: addWordToSettings(T, w) writes the sorted, de-duplicated union
\* of the word list stored exactly at the resolved target's scope (empty when
\* none is stored there) with the parts of w split on spaces; words defined
\* only at a broader scope are not part of the list written.
C8_AddWordUnionWithStored ==
    \A i \in CallIndexes :
        calls[i].op = "addWordToSettings" =>
            /\ calls[i].written.def
            /\ IsSortedSetOf(calls[i].written.val,
                             Range(OrElseList(calls[i].storedBefore, <<>>))
                                \cup Range(split(calls[i].arg, " ")))

C8_Witness ==
    \E i \in CallIndexes :
        /\ calls[i].op = "addWordToSettings"
        /\ calls[i].key = "words"
        /\ calls[i].arg = <<"d", " ", "a">>
        /\ calls[i].storedBefore = Def(<< <<"c">>, <<"a">>, <<"c">> >>)
        /\ calls[i].inheritedBefore = Def(<< <<"g">> >>)
        /\ calls[i].written = Def(<< <<"a">>, <<"c">>, <<"d">> >>)

\* C9: addWordToSettings writes `userWords` at Global scope exactly when the
\* requested target is global or no workspace root is open, and otherwise
\* `words` at the requested target; the section is `userWords` if and only
\* if the scope written is Global, and only that section at that scope is
\* written.
C9_AddWordSectionFollowsResolvedScope ==
    \A i \in CallIndexes :
        calls[i].op = "addWordToSettings" =>
            LET global == calls[i].requested.target = "Global"
                            \/ ~workspaceFolders.def
                            \/ Len(workspaceFolders.val) = 0
            IN  /\ global => calls[i].key = "userWords" /\ calls[i].scope = "User"
                /\ ~global => /\ calls[i].key = "words"
                              /\ calls[i].target = calls[i].requested
                              /\ calls[i].scope = configTargetToScope(calls[i].requested)
                /\ calls[i].key = "userWords" <=> calls[i].scope = "User"
                /\ calls[i].key \in {"userWords", "words"}
                /\ calls[i].changed \subseteq {<<calls[i].key, calls[i].scope>>}
                /\ calls[i].storedAfter = calls[i].written

C9_Witness ==
    /\ hasWorkspaceLocation
    /\ \E i \in CallIndexes :
          /\ calls[i].op = "addWordToSettings"
          /\ calls[i].requested.target = "WorkspaceFolder"
          /\ calls[i].changed = {<<"words", "Folder">>}
    /\ \E i \in CallIndexes :
          /\ calls[i].op = "addWordToSettings"
          /\ calls[i].requested.target = "Global"
          /\ calls[i].changed = {<<"userWords", "User">>}

(***************************************************************************)
(* Properties of enableLanguage / disableLanguage                          *)
(***************************************************************************)
LanguageOps == {"enableLanguage", "disableLanguage"}

\* The candidate settings files of the open root that owns the resource.
CandidatesOf(uri) ==
    IF uri # NoUri /\ getWorkspaceFolder(uri).def
    THEN {pathJoin(getWorkspaceFolder(uri).val, configFileLocations[k]) :
            k \in 1..Len(configFileLocations)}
    ELSE {}

FileStepFailedOrPending(i) ==
    \E t \in 1..Len(fileTasks) :
        fileTasks[t].call = i /\ fileTasks[t].stage \in {"lookup", "write", "failed"}

\* C11: for enableLanguage and disableLanguage alike, a failed configuration
\* store write makes the returned promise reject, and the returned promise is
\* never resolved while the settings-file lookup or write of that call has
\* failed or is still pending.
C11_PromiseFollowsStoreAndFileWrite ==
    \A i \in CallIndexes :
        calls[i].op \in LanguageOps =>
            /\ promises[i].storeRejected => promises[i].state = "rejected"
            /\ promises[i].state = "resolved" => ~FileStepFailedOrPending(i)

\* The part of C11 that holds of disableLanguage, which returns the file step.
DisableLanguagePromiseFollowsFileWrite ==
    \A i \in CallIndexes :
        calls[i].op = "disableLanguage" =>
            /\ promises[i].storeRejected => promises[i].state = "rejected"
            /\ promises[i].state = "resolved" => ~FileStepFailedOrPending(i)

(***************************************************************************)
(* Properties of settings-file discovery                                   *)
(***************************************************************************)
\* No settings file applies to the resource: no root is open, or the resource
\* is owned by none of the open roots.
NothingApplies(uri) == ~hasWorkspaceLocation \/ ~getWorkspaceFolder(uri).def

\* C12: findSettingsFiles(uri?) completes with a list and never raises, with
\* no root open, with roots open and no uri, and with a uri owned by none of
\* the open roots; in those cases enableLanguage / disableLanguage on a folder
\* target write the configuration store only and still succeed.
C12_DiscoveryNeverRaises ==
    \A i \in CallIndexes :
        /\ calls[i].op = "findSettingsFiles" => ~calls[i].raised
        /\ (/\ calls[i].op \in LanguageOps
            /\ calls[i].target.target = "WorkspaceFolder"
            /\ calls[i].target.uri # NoUri
            /\ NothingApplies(calls[i].target.uri))
              => /\ promises[i].state # "rejected"
                 /\ \A t \in 1..Len(fileTasks) :
                        fileTasks[t].call = i => fileTasks[t].stage # "failed"
                 /\ \A e \in 1..Len(fileLog) : fileLog[e].call # i

\* The existing candidate files of the open roots.
ExistingCandidates ==
    IF ~workspaceFolders.def THEN {}
    ELSE {f \in DOMAIN fsFiles :
            \E r \in Range(workspaceFolders.val) :
                \E k \in 1..Len(configFileLocations) : f = FileIn(r, k)}

IsShortestExisting(path) ==
    /\ path \in ExistingCandidates
    /\ \A f \in ExistingCandidates : Len(path) <= Len(f)

IsDefaultLocation(path) ==
    /\ workspaceFolders.def /\ workspaceFolders.val # <<>>
    /\ path = workspaceFolders.val[1] \o <<"/">> \o dotVscode \o <<"/">> \o baseConfigName

\* C13 as stated: findSettingsFileLocation always yields a defined path, the
\* shortest among the existing root x candidate files when one exists and
\* otherwise the default location; never undefined, in any workspace state.
C13_LocationAlwaysDefined ==
    \A i \in CallIndexes :
        calls[i].op = "findSettingsFileLocation" =>
            /\ ~calls[i].raised
            /\ calls[i].result.def
            /\ IF ExistingCandidates # {} THEN IsShortestExisting(calls[i].result.val)
               ELSE IsDefaultLocation(calls[i].result.val)

\* C13 amended: when at least one project root is open, findSettingsFileLocation
\* yields a defined path, the shortest among the existing root x candidate
\* files when one exists and otherwise the default location under `.vscode`
\* of the first root; with no project root open it yields undefined.
C13_LocationDefinedWhenRootOpen ==
    \A i \in CallIndexes :
        calls[i].op = "findSettingsFileLocation" =>
            /\ ~calls[i].raised
            /\ calls[i].result.def <=> hasWorkspaceLocation
            /\ hasWorkspaceLocation =>
                    IF ExistingCandidates # {} THEN IsShortestExisting(calls[i].result.val)
                    ELSE IsDefaultLocation(calls[i].result.val)

C13_Witness ==
    /\ workspaceFolders = Def(<<RootB, RootA>>)
    /\ DOMAIN fsFiles = {FileIn(RootB, 3), FileIn(RootA, 3)}
    /\ \E i \in CallIndexes :
          /\ calls[i].op = "findSettingsFileLocation"
          /\ calls[i].result = Def(FileIn(RootA, 3))

(***************************************************************************)
(* Properties of overlapping mutations                                     *)
(***************************************************************************)
\* Write j is the last to have landed on its key and scope.
LandedLast(j) ==
    /\ inflight[j].landed > 0
    /\ \A k \in 1..Len(inflight) :
          (inflight[k].key = inflight[j].key /\ inflight[k].scope = inflight[j].scope)
              => inflight[k].landed <= inflight[j].landed

\* Writes i and j are on the same key and target, both have landed, and j
\* read the store before i landed.
Overlapped(i, j) ==
    /\ i # j
    /\ inflight[i].key = inflight[j].key
    /\ inflight[i].target = inflight[j].target
    /\ inflight[i].landed > 0 /\ inflight[j].landed > 0
    /\ inflight[i].landed > inflight[j].readAt

\* The entries of a stored list or locale string.
EntriesOf(key, value) ==
    IF ~value.def THEN {}
    ELSE IF key = "language" THEN Range(split(value.val, ","))
    ELSE Range(value.val)

\* C14: when two mutations of the same key and target overlap, so that the
\* second reads the store before the first one's write has landed, the stored
\* value is the one the last writer computed from its own read, and what only
\* the other mutation added is lost; nothing is merged or retried.
C14_LastWriterWins ==
    \A i \in 1..Len(inflight) : \A j \in 1..Len(inflight) :
        (Overlapped(i, j) /\ LandedLast(j)) =>
            /\ vsConfig[inflight[j].key][inflight[j].scope] = inflight[j].value
            /\ EntriesOf(inflight[j].key, inflight[j].value)
                    = {trim(inflight[j].arg)}
                        \cup EntriesOf(inflight[j].key,
                                       IF inflight[j].key = "language"
                                       THEN Def(OrElseStr(inflight[j].readEffective, <<>>))
                                       ELSE inflight[j].readEffective)
            /\ (/\ trim(inflight[i].arg) # trim(inflight[j].arg)
                /\ trim(inflight[i].arg)
                      \notin EntriesOf(inflight[j].key, inflight[j].readEffective))
                  => trim(inflight[i].arg)
                        \notin EntriesOf(inflight[j].key,
                                         vsConfig[inflight[j].key][inflight[j].scope])

C14_Witness ==
    \E i \in 1..Len(inflight) : \E j \in 1..Len(inflight) :
        /\ Overlapped(i, j) /\ LandedLast(j)
        /\ inflight[i].op = "enableLanguageIdInConfig"
        /\ inflight[i].arg = go /\ inflight[j].arg = <<"c">>
        /\ ~inflight[j].readEffective.def
        /\ inflight[i].value = Def(<<go>>)
        /\ vsConfig["enabledLanguageIds"][inflight[j].scope] = Def(<< <<"c">> >>)

(***************************************************************************)
(* Properties of the watch handle                                          *)
(***************************************************************************)
\* No path was passed to watcher.add twice, no watch was added after dispose,
\* and after dispose nothing is watched.
WatchAddsOnceAndNotAfterDispose ==
    /\ \A a \in 1..Len(watchAdds) : \A b \in 1..Len(watchAdds) :
          watchAdds[a].path = watchAdds[b].path => a = b
    /\ \A a \in 1..Len(watchAdds) : ~watchAdds[a].afterDispose
    /\ disposed => watching = {}

\* Until the handle is disposed a step never removes a watch.
WatchSetGrows == ~disposed' => watching \subseteq watching'

\* C15: until the handle of watchSettingsFiles is disposed the set of watched
\* files only grows and each discovered path is added at most once, also when
\* ticks overlap or a result lists a path twice; after dispose the set is
\* empty and no watch is added again, even with a probe in flight.
C15_WatchSetGrowsUntilDisposed ==
    /\ []WatchAddsOnceAndNotAfterDispose
    /\ [][WatchSetGrows]_vars

C15_Witness ==
    /\ disposed
    /\ watching = {}
    /\ Len(watchAdds) >= 2
    /\ \E k \in 1..Len(probes) : probes[k] = "dropped"
    /\ \E k \in 1..Len(probes) : probes[k] = "delivered"

(***************************************************************************)
(* Properties of the workspace commands                                    *)
(***************************************************************************)
\* C16: after cSpell.enableForWorkspace completes the `enabled` setting stored
\* at Workspace scope is true, and after cSpell.disableForWorkspace it is
\* false; so enableForWorkspace after disableForWorkspace re-enables spell
\* checking for the workspace.
C16_EnableForWorkspaceEnables ==
    \A i \in CallIndexes :
        /\ calls[i].op = "cSpell.enableForWorkspace"
              => calls[i].scope = "Workspace" /\ calls[i].storedAfter = Def(TRUE)
        /\ calls[i].op = "cSpell.disableForWorkspace"
              => calls[i].scope = "Workspace" /\ calls[i].storedAfter = Def(FALSE)

\* The part of C16 that holds: disableForWorkspace stores false at Workspace scope.
DisableForWorkspaceDisables ==
    \A i \in CallIndexes :
        calls[i].op = "cSpell.disableForWorkspace"
            => calls[i].scope = "Workspace" /\ calls[i].storedAfter = Def(FALSE)
====
